---- MODULE Spec2Model ----
(***************************************************************************)
(* The forward physically-based drawing pass DrawPbmSeparate of            *)
(* amethyst_renderer (src/amethyst_renderer/src/pass/pbm/separate.rs):     *)
(* the pass builder, compile, and the per-frame traversal of apply.        *)
(***************************************************************************)
EXTENDS Integers, Sequences, FiniteSets, TLC

\* ---------------------------------------------------------------- bounds
NumEntities == 2
MaxList == 2

Entity == 1 .. NumEntities

\* Option<T>: None is the empty sequence, Some(x) the one-element sequence.
None == << >>
Some(x) == << x >>

Min(S) == CHOOSE x \in S : \A y \in S : x <= y

SeqsUpTo(S, n) == UNION { [1 .. k -> S] : k \in 0 .. n }

\* ----------------------------------------------------------------- state
VARIABLES
    pass,           \* DrawPbmSeparate { skinning, transparency }
    effect,         \* Option<Result<Effect>>: None until compile has run
    requested,      \* arguments of the last with_transparency call, if any
    active,         \* Option<Fetch<ActiveCamera>>
    camera,         \* ReadStorage<Camera>: entities with a Camera
    mesh_storage,   \* AssetStorage<Mesh>: the handles that resolve
    back_to_front,  \* TransparentBackToFront.entities
    mesh,           \* ReadStorage<MeshHandle>; the handle of e is e
    material,       \* ReadStorage<Material>
    global,         \* ReadStorage<GlobalTransform>
    light,          \* ReadStorage<Light>
    joints,         \* ReadStorage<JointTransforms>
    transparent,    \* ReadStorage<Transparent>
    pc,             \* position inside apply
    cam,            \* the local `camera` of apply (line 147)
    opaque_iter,    \* position of the join iterator of the first loop
    idx,            \* position in back_to_front of the second loop
    calls,          \* draw_mesh invocations of the current frame
    encoder,        \* commands encoded in the current frame
    skipped,        \* entities skipped in an earlier frame for an unresolved mesh
    build_result,   \* what builder.build() returned to compile, if it has run
    writing,        \* the list the ordering system is writing, None when it is not
    published,      \* the list the ordering system published last
    prev            \* the draw calls of the last frame, while the frame data is as then

configVars == << pass, effect, requested >>
dataVars == << active, camera, back_to_front, mesh, material, global, light,
               joints, transparent >>
frameVars == << pc, cam, opaque_iter, idx, calls, encoder >>
extVars == << build_result, writing, published, prev >>
vars == << pass, effect, requested, active, camera, mesh_storage, back_to_front,
           mesh, material, global, light, joints, transparent, pc, cam,
           opaque_iter, idx, calls, encoder, skipped, build_result, writing,
           published, prev >>

\* ------------------------------------------------- pass configuration
\* gfx_core::state::ColorMask, Blend and pipe::DepthMode values a caller passes.
ColorMask == { "ALL", "RED" }
Blend == { "ALPHA", "ADD" }
DepthMode == { "LessEqualTest", "LessEqualWrite" }
Transparency == ColorMask \X Blend \X ({ None } \cup { Some(d) : d \in DepthMode })

\* Errors of the terminal build step.
CompilationError == { "ShaderSyntax", "UnsupportedAttributes", "DeviceLimit" }

\* DrawPbmSeparate::new(): Default::default().
new == [ skinning |-> FALSE, transparency |-> None ]

\* with_vertex_skinning flipping the flag.
with_vertex_skinning_toggling(self) == [ self EXCEPT !.skinning = ~self.skinning ]

with_vertex_skinning(self) == [ self EXCEPT !.skinning = TRUE ]

\* with_transparency losing the caller's depth mode.
with_transparency_without_depth(self, mask, blend, depth) ==
    [ self EXCEPT !.transparency = Some(<< mask, blend, None >>) ]

with_transparency(self, mask, blend, depth) ==
    [ self EXCEPT !.transparency = Some(<< mask, blend, depth >>) ]

\* ------------------------------------------------------------ compile
ATTRIBUTES == << "Position", "Normal", "Tangent", "TexCoord" >>

\* Separate::<T>::size(): bytes of one element of the attribute group.
size(attr) ==
    CASE attr = "Position" -> 3 * 4
      [] attr = "Normal" -> 3 * 4
      [] attr = "Tangent" -> 3 * 4
      [] attr = "TexCoord" -> 2 * 4
      [] attr = "JointIds" -> 4 * 2
      [] attr = "JointWeights" -> 4 * 4

TEXTURES == << "albedo", "emissive", "normal", "metallic_roughness",
               "ambient_occlusion" >>

\* One registration of the effect builder; mask, blend and depth are Options.
Reg(kind, name, stride, mask, blend, depth) ==
    [ kind |-> kind, name |-> name, stride |-> stride, mask |-> mask, blend |-> blend,
      depth |-> depth ]

simple(vs, fs) == [ vs |-> vs, fs |-> fs, regs |-> << >> ]

create_skinning_effect(fs) == simple("SKINNED_VERT_SRC", fs)

with_raw_vertex_buffer(builder, attr, stride) ==
    [ builder EXCEPT
        !.regs = Append(@, Reg("vertex_buffer", attr, stride, None, None, None)) ]

with_raw_constant_buffer(builder, name) ==
    [ builder EXCEPT
        !.regs = Append(@, Reg("constant_buffer", name, 0, None, None, None)) ]

with_texture(builder, name) ==
    [ builder EXCEPT !.regs = Append(@, Reg("texture", name, 0, None, None, None)) ]

with_output(builder, name, depth) ==
    [ builder EXCEPT !.regs = Append(@, Reg("output", name, 0, None, None, depth)) ]

with_blended_output(builder, name, mask, blend, depth) ==
    [ builder EXCEPT
        !.regs = Append(@, Reg("blended_output", name, 0, Some(mask), Some(blend), depth)) ]

setup_skinning_buffers(builder) ==
    with_raw_constant_buffer(
        with_raw_vertex_buffer(
            with_raw_vertex_buffer(builder, "JointIds", size("JointIds")),
            "JointWeights", size("JointWeights")),
        "JointTransforms")

setup_vertex_args(builder) ==
    with_raw_constant_buffer(with_raw_constant_buffer(builder, "PerObject"), "PerCamera")

setup_light_buffers(builder) ==
    with_raw_constant_buffer(with_raw_constant_buffer(builder, "AmbientColor"), "Lights")

RECURSIVE setup_textures(_, _)
setup_textures(builder, types) ==
    IF types = << >> THEN builder
    ELSE setup_textures(with_texture(builder, Head(types)), Tail(types))

\* builder.build(): the Effect with everything registered, or the error.
build(builder, result) ==
    IF result = "Ok"
    THEN [ ok |-> TRUE, vs |-> builder.vs, fs |-> builder.fs, bindings |-> builder.regs,
           error |-> "" ]
    ELSE [ ok |-> FALSE, vs |-> "", fs |-> "", bindings |-> << >>, error |-> result ]

\* compile registering the skinning buffers in place of the vertex argument buffers.
compile_skinning_replaces_args(self, result) ==
    LET b0 == IF self.skinning THEN create_skinning_effect("FRAG_SRC")
              ELSE simple("VERT_SRC", "FRAG_SRC")
        b1 == with_raw_vertex_buffer(b0, "Position", size("Position"))
        b2 == with_raw_vertex_buffer(b1, "Normal", size("Normal"))
        b3 == with_raw_vertex_buffer(b2, "Tangent", size("Tangent"))
        b4 == with_raw_vertex_buffer(b3, "TexCoord", size("TexCoord"))
        b6 == IF self.skinning THEN setup_skinning_buffers(b4) ELSE setup_vertex_args(b4)
        b7 == setup_light_buffers(b6)
        b8 == setup_textures(b7, TEXTURES)
        b9 == IF self.transparency # None
              THEN with_blended_output(b8, "color", self.transparency[1][1],
                                       self.transparency[1][2], self.transparency[1][3])
              ELSE with_output(b8, "color", Some("LessEqualWrite"))
    IN  build(b9, result)

\* compile registering the texture slots before the light buffers.
compile_textures_before_lights(self, result) ==
    LET b0 == IF self.skinning THEN create_skinning_effect("FRAG_SRC")
              ELSE simple("VERT_SRC", "FRAG_SRC")
        b1 == with_raw_vertex_buffer(b0, "Position", size("Position"))
        b2 == with_raw_vertex_buffer(b1, "Normal", size("Normal"))
        b3 == with_raw_vertex_buffer(b2, "Tangent", size("Tangent"))
        b4 == with_raw_vertex_buffer(b3, "TexCoord", size("TexCoord"))
        b5 == IF self.skinning THEN setup_skinning_buffers(b4) ELSE b4
        b6 == setup_vertex_args(b5)
        b7 == setup_textures(b6, TEXTURES)
        b8 == setup_light_buffers(b7)
        b9 == IF self.transparency # None
              THEN with_blended_output(b8, "color", self.transparency[1][1],
                                       self.transparency[1][2], self.transparency[1][3])
              ELSE with_output(b8, "color", Some("LessEqualWrite"))
    IN  build(b9, result)

\* compile handing back an Effect whatever the build step returned.
compile_swallowing_error(self, result) ==
    LET b0 == IF self.skinning THEN create_skinning_effect("FRAG_SRC")
              ELSE simple("VERT_SRC", "FRAG_SRC")
        b1 == with_raw_vertex_buffer(b0, "Position", size("Position"))
        b2 == with_raw_vertex_buffer(b1, "Normal", size("Normal"))
        b3 == with_raw_vertex_buffer(b2, "Tangent", size("Tangent"))
        b4 == with_raw_vertex_buffer(b3, "TexCoord", size("TexCoord"))
        b5 == IF self.skinning THEN setup_skinning_buffers(b4) ELSE b4
        b6 == setup_vertex_args(b5)
        b7 == setup_light_buffers(b6)
        b8 == setup_textures(b7, TEXTURES)
        b9 == IF self.transparency # None
              THEN with_blended_output(b8, "color", self.transparency[1][1],
                                       self.transparency[1][2], self.transparency[1][3])
              ELSE with_output(b8, "color", Some("LessEqualWrite"))
    IN  build(b9, "Ok")

\* compile giving every vertex buffer the stride of one interleaved vertex.
compile_interleaved_stride(self, result) ==
    LET interleaved == size("Position") + size("Normal") + size("Tangent") + size("TexCoord")
        b0 == IF self.skinning THEN create_skinning_effect("FRAG_SRC")
              ELSE simple("VERT_SRC", "FRAG_SRC")
        b1 == with_raw_vertex_buffer(b0, "Position", interleaved)
        b2 == with_raw_vertex_buffer(b1, "Normal", interleaved)
        b3 == with_raw_vertex_buffer(b2, "Tangent", interleaved)
        b4 == with_raw_vertex_buffer(b3, "TexCoord", interleaved)
        b5 == IF self.skinning THEN setup_skinning_buffers(b4) ELSE b4
        b6 == setup_vertex_args(b5)
        b7 == setup_light_buffers(b6)
        b8 == setup_textures(b7, TEXTURES)
        b9 == IF self.transparency # None
              THEN with_blended_output(b8, "color", self.transparency[1][1],
                                       self.transparency[1][2], self.transparency[1][3])
              ELSE with_output(b8, "color", Some("LessEqualWrite"))
    IN  build(b9, result)

\* Pass::compile of DrawPbmSeparate; `result` is the outcome of the build step.
compile(self, result) ==
    LET b0 == IF self.skinning THEN create_skinning_effect("FRAG_SRC")
              ELSE simple("VERT_SRC", "FRAG_SRC")
        b1 == with_raw_vertex_buffer(b0, "Position", size("Position"))
        b2 == with_raw_vertex_buffer(b1, "Normal", size("Normal"))
        b3 == with_raw_vertex_buffer(b2, "Tangent", size("Tangent"))
        b4 == with_raw_vertex_buffer(b3, "TexCoord", size("TexCoord"))
        b5 == IF self.skinning THEN setup_skinning_buffers(b4) ELSE b4
        b6 == setup_vertex_args(b5)
        b7 == setup_light_buffers(b6)
        b8 == setup_textures(b7, TEXTURES)
        b9 == IF self.transparency # None
              THEN with_blended_output(b8, "color", self.transparency[1][1],
                                       self.transparency[1][2], self.transparency[1][3])
              ELSE with_output(b8, "color", Some("LessEqualWrite"))
    IN  build(b9, result)

\* -------------------------------------------------------------- apply
\* Storage::get / AssetStorage::get: the component or asset under `key`, if any.
get(storage, key) == IF key \in storage THEN Some(key) ELSE None

\* The shader's fixed maximum number of lights.
MAX_LIGHTS == 1

\* One command of the frame's encoder.
Cmd(op, loop, entity, c, skinned, joint, lights) ==
    [ op |-> op, loop |-> loop, entity |-> entity, camera |-> c, skinned |-> skinned,
      joints |-> joint, lights |-> lights ]

\* util::get_camera: the results the camera resolver may return.
get_camera(act, cams, glob) ==
    IF act # None /\ act[1] \in cams /\ act[1] \in glob
    THEN { Some(act[1]) }
    ELSE IF cams \cap glob # { }
         THEN { Some(c) : c \in cams \cap glob }
         ELSE { None }

\* shaded_util::set_light_args: the lights beyond MAX_LIGHTS are dropped.
set_light_args(enc, lights, c) ==
    LET n == IF Cardinality(lights) > MAX_LIGHTS THEN MAX_LIGHTS ELSE Cardinality(lights)
    IN  Append(enc, Cmd("set_light_args", "", None, c, FALSE, None, n))

\* util::draw_mesh: one draw call, or nothing when the mesh, the material or the
\* transform is absent. `loop` and `entity` tag the command with its call site.
draw_mesh(enc, loop, entity, skinning, meshData, joint, mat, c, glob) ==
    IF meshData = None \/ mat = None \/ glob = None
    THEN enc
    ELSE Append(enc, Cmd("draw", loop, Some(entity), c, skinning,
                         IF skinning THEN joint ELSE None, 0))

\* The join without its &material term.
OpaqueJoin_without_material ==
    { e \in Entity : e \in mesh /\ e \in global /\ e \notin transparent }

\* The join without its !&transparent term.
OpaqueJoin_with_transparent ==
    { e \in Entity : e \in mesh /\ e \in material /\ e \in global }

\* (&*entities, &mesh, &material, &global, !&transparent).join()
OpaqueJoin ==
    { e \in Entity : e \in mesh /\ e \in material /\ e \in global /\ e \notin transparent }

\* What the join iterator of the first loop has still to yield (ascending ids).
OpaqueRest == { e \in OpaqueJoin : e >= opaque_iter }

Call(loop, entity) == [ loop |-> loop, entity |-> entity ]

\* apply entered while the ordering system still holds the list.
Apply_unordered ==
    /\ pc = "Idle"
    /\ effect # None /\ effect[1].ok
    /\ pc' = "ResolveCamera"
    /\ UNCHANGED << configVars, dataVars, extVars, mesh_storage, skipped, cam, opaque_iter, idx,
                    calls, encoder >>

\* The renderer calls apply with the frame's data and a fresh encoder.
Apply ==
    /\ pc = "Idle"
    /\ effect # None /\ effect[1].ok
    /\ writing = None
    /\ pc' = "ResolveCamera"
    /\ UNCHANGED << configVars, dataVars, extVars, mesh_storage, skipped, cam, opaque_iter, idx,
                    calls, encoder >>

\* apply going from the camera straight to the first loop.
ResolveCamera_then_draw ==
    /\ pc = "ResolveCamera"
    /\ \E c \in get_camera(active, camera, global) : cam' = c
    /\ pc' = "DrawOpaque"
    /\ UNCHANGED << configVars, dataVars, extVars, mesh_storage, skipped, opaque_iter, idx, calls,
                    encoder >>

\* let camera = get_camera(active, &camera, &global);
ResolveCamera ==
    /\ pc = "ResolveCamera"
    /\ \E c \in get_camera(active, camera, global) : cam' = c
    /\ pc' = "UploadLights"
    /\ UNCHANGED << configVars, dataVars, extVars, mesh_storage, skipped, opaque_iter, idx, calls,
                    encoder >>

\* apply uploading every light there is.
UploadLights_all_lights ==
    /\ pc = "UploadLights"
    /\ encoder' = Append(encoder, Cmd("set_light_args", "", None, cam, FALSE, None,
                                      Cardinality(light)))
    /\ pc' = "DrawOpaque"
    /\ UNCHANGED << configVars, dataVars, extVars, mesh_storage, skipped, cam, opaque_iter, idx,
                    calls >>

\* set_light_args(effect, encoder, &light, &ambient, camera);
UploadLights ==
    /\ pc = "UploadLights"
    /\ encoder' = set_light_args(encoder, light, cam)
    /\ pc' = "DrawOpaque"
    /\ UNCHANGED << configVars, dataVars, extVars, mesh_storage, skipped, cam, opaque_iter, idx,
                    calls >>

\* The first loop never retrying a mesh that once failed to resolve.
DrawOpaque_sticky_skip ==
    /\ pc = "DrawOpaque"
    /\ OpaqueRest # { }
    /\ LET entity == Min(OpaqueRest)
       IN  /\ encoder' = draw_mesh(encoder, "opaque", entity, pass.skinning,
                                   get(mesh_storage \ skipped, entity), get(joints, entity),
                                   Some(entity), cam, Some(entity))
           /\ calls' = Append(calls, Call("opaque", entity))
           /\ skipped' = IF entity \in mesh_storage THEN skipped ELSE skipped \cup { entity }
           /\ opaque_iter' = entity + 1
    /\ UNCHANGED << configVars, dataVars, extVars, mesh_storage, pc, cam, idx >>

\* The first loop unwrapping the mesh: apply dies on a handle that does not resolve.
DrawOpaque_unwrap ==
    /\ pc = "DrawOpaque"
    /\ OpaqueRest # { }
    /\ LET entity == Min(OpaqueRest)
       IN  /\ encoder' = draw_mesh(encoder, "opaque", entity, pass.skinning,
                                   get(mesh_storage, entity), get(joints, entity),
                                   Some(entity), cam, Some(entity))
           /\ calls' = Append(calls, Call("opaque", entity))
           /\ skipped' = IF entity \in mesh_storage THEN skipped ELSE skipped \cup { entity }
           /\ opaque_iter' = entity + 1
           /\ pc' = IF entity \in mesh_storage THEN pc ELSE "Panicked"
    /\ UNCHANGED << configVars, dataVars, extVars, mesh_storage, cam, idx >>

\* The first loop of a skinning pass leaving out the entities without JointTransforms.
DrawOpaque_requires_joints ==
    /\ pc = "DrawOpaque"
    /\ OpaqueRest # { }
    /\ LET entity == Min(OpaqueRest)
       IN  /\ encoder' = draw_mesh(encoder, "opaque", entity, pass.skinning,
                                   IF pass.skinning /\ get(joints, entity) = None THEN None
                                   ELSE get(mesh_storage, entity),
                                   get(joints, entity), Some(entity), cam, Some(entity))
           /\ calls' = Append(calls, Call("opaque", entity))
           /\ skipped' = IF entity \in mesh_storage THEN skipped ELSE skipped \cup { entity }
           /\ opaque_iter' = entity + 1
    /\ UNCHANGED << configVars, dataVars, extVars, mesh_storage, pc, cam, idx >>

\* One iteration of the first loop.
DrawOpaque ==
    /\ pc = "DrawOpaque"
    /\ OpaqueRest # { }
    /\ LET entity == Min(OpaqueRest)
       IN  /\ encoder' = draw_mesh(encoder, "opaque", entity, pass.skinning,
                                   get(mesh_storage, entity), get(joints, entity),
                                   Some(entity), cam, Some(entity))
           /\ calls' = Append(calls, Call("opaque", entity))
           /\ skipped' = IF entity \in mesh_storage THEN skipped ELSE skipped \cup { entity }
           /\ opaque_iter' = entity + 1
    /\ UNCHANGED << configVars, dataVars, extVars, mesh_storage, pc, cam, idx >>

\* The join of the first loop is exhausted.
DrawOpaqueEnd ==
    /\ pc = "DrawOpaque"
    /\ OpaqueRest = { }
    /\ pc' = "DrawTransparent"
    /\ UNCHANGED << configVars, dataVars, extVars, mesh_storage, skipped, cam, opaque_iter, idx,
                    calls, encoder >>

\* The second loop leaving at the first entry without a mesh handle.
DrawTransparent_break ==
    /\ pc = "DrawTransparent"
    /\ idx <= Len(back_to_front)
    /\ LET entity == back_to_front[idx]
       IN  IF get(mesh, entity) # None
           THEN /\ encoder' = draw_mesh(encoder, "transparent", entity, pass.skinning,
                                        get(mesh_storage, entity), get(joints, entity),
                                        get(material, entity), cam, get(global, entity))
                /\ calls' = Append(calls, Call("transparent", entity))
                /\ skipped' = IF entity \in mesh_storage THEN skipped
                              ELSE skipped \cup { entity }
                /\ idx' = idx + 1
           ELSE /\ idx' = Len(back_to_front) + 1
                /\ UNCHANGED << encoder, calls, skipped >>
    /\ UNCHANGED << configVars, dataVars, extVars, mesh_storage, pc, cam, opaque_iter >>

\* The second loop walking the list from its far end.
DrawTransparent_reversed ==
    /\ pc = "DrawTransparent"
    /\ idx <= Len(back_to_front)
    /\ LET entity == back_to_front[Len(back_to_front) + 1 - idx]
       IN  IF get(mesh, entity) # None
           THEN /\ encoder' = draw_mesh(encoder, "transparent", entity, pass.skinning,
                                        get(mesh_storage, entity), get(joints, entity),
                                        get(material, entity), cam, get(global, entity))
                /\ calls' = Append(calls, Call("transparent", entity))
                /\ skipped' = IF entity \in mesh_storage THEN skipped
                              ELSE skipped \cup { entity }
           ELSE UNCHANGED << encoder, calls, skipped >>
    /\ idx' = idx + 1
    /\ UNCHANGED << configVars, dataVars, extVars, mesh_storage, pc, cam, opaque_iter >>

\* The second loop taking its entries off the list as it goes.
DrawTransparent_draining ==
    /\ pc = "DrawTransparent"
    /\ idx <= Len(back_to_front)
    /\ LET entity == Head(back_to_front)
       IN  IF get(mesh, entity) # None
           THEN /\ encoder' = draw_mesh(encoder, "transparent", entity, pass.skinning,
                                        get(mesh_storage, entity), get(joints, entity),
                                        get(material, entity), cam, get(global, entity))
                /\ calls' = Append(calls, Call("transparent", entity))
                /\ skipped' = IF entity \in mesh_storage THEN skipped
                              ELSE skipped \cup { entity }
           ELSE UNCHANGED << encoder, calls, skipped >>
    /\ back_to_front' = Tail(back_to_front)
    /\ UNCHANGED << configVars, active, camera, mesh, material, global, light, joints,
                    transparent, extVars, mesh_storage, pc, cam, opaque_iter, idx >>

\* The second loop resolving the camera anew for each entry.
DrawTransparent_resolving_again ==
    /\ pc = "DrawTransparent"
    /\ idx <= Len(back_to_front)
    /\ LET entity == back_to_front[idx]
       IN  IF get(mesh, entity) # None
           THEN /\ \E c \in get_camera(active, camera, global) :
                    encoder' = draw_mesh(encoder, "transparent", entity, pass.skinning,
                                         get(mesh_storage, entity), get(joints, entity),
                                         get(material, entity), c, get(global, entity))
                /\ calls' = Append(calls, Call("transparent", entity))
                /\ skipped' = IF entity \in mesh_storage THEN skipped
                              ELSE skipped \cup { entity }
           ELSE UNCHANGED << encoder, calls, skipped >>
    /\ idx' = idx + 1
    /\ UNCHANGED << configVars, dataVars, extVars, mesh_storage, pc, cam, opaque_iter >>

\* The second loop passing over the entries without the Transparent marker.
DrawTransparent_marked_only ==
    /\ pc = "DrawTransparent"
    /\ idx <= Len(back_to_front)
    /\ LET entity == back_to_front[idx]
       IN  IF get(mesh, entity) # None /\ get(transparent, entity) # None
           THEN /\ encoder' = draw_mesh(encoder, "transparent", entity, pass.skinning,
                                        get(mesh_storage, entity), get(joints, entity),
                                        get(material, entity), cam, get(global, entity))
                /\ calls' = Append(calls, Call("transparent", entity))
                /\ skipped' = IF entity \in mesh_storage THEN skipped
                              ELSE skipped \cup { entity }
           ELSE UNCHANGED << encoder, calls, skipped >>
    /\ idx' = idx + 1
    /\ UNCHANGED << configVars, dataVars, extVars, mesh_storage, pc, cam, opaque_iter >>

\* One iteration of the second loop.
DrawTransparent ==
    /\ pc = "DrawTransparent"
    /\ idx <= Len(back_to_front)
    /\ LET entity == back_to_front[idx]
       IN  IF get(mesh, entity) # None
           THEN /\ encoder' = draw_mesh(encoder, "transparent", entity, pass.skinning,
                                        get(mesh_storage, entity), get(joints, entity),
                                        get(material, entity), cam, get(global, entity))
                /\ calls' = Append(calls, Call("transparent", entity))
                /\ skipped' = IF entity \in mesh_storage THEN skipped
                              ELSE skipped \cup { entity }
           ELSE UNCHANGED << encoder, calls, skipped >>
    /\ idx' = idx + 1
    /\ UNCHANGED << configVars, dataVars, extVars, mesh_storage, pc, cam, opaque_iter >>

\* The list of the second loop is exhausted: apply returns.
DrawTransparentEnd ==
    /\ pc = "DrawTransparent"
    /\ idx > Len(back_to_front)
    /\ pc' = "Done"
    /\ UNCHANGED << configVars, dataVars, extVars, mesh_storage, skipped, cam, opaque_iter, idx,
                    calls, encoder >>

\* apply has returned: the renderer flushes the encoder and the frame is over;
\* `record` is what is remembered of the frame.
FlushEncoder(record) ==
    /\ pc = "Done"
    /\ pc' = "Idle"
    /\ cam' = None
    /\ opaque_iter' = 1
    /\ idx' = 1
    /\ calls' = << >>
    /\ encoder' = << >>
    /\ prev' = record
    /\ UNCHANGED << configVars, dataVars, mesh_storage, skipped, build_result, writing,
                    published >>

EndFrame == FlushEncoder(prev)

\* The end of a frame whose camera and commands are remembered for the next frame.
EndFrameRecorded == FlushEncoder(Some([ cam |-> cam, encoder |-> encoder ]))

\* Between two frames the asset loader makes a pending mesh resident.
LoadMesh ==
    /\ pc = "Idle"
    /\ \E h \in mesh \ mesh_storage : mesh_storage' = mesh_storage \cup { h }
    /\ prev' = None
    /\ UNCHANGED << configVars, dataVars, frameVars, skipped, build_result, writing,
                    published >>

ApplyStep ==
    \/ ResolveCamera
    \/ UploadLights
    \/ DrawOpaque
    \/ DrawOpaqueEnd
    \/ DrawTransparent
    \/ DrawTransparentEnd

\* ------------------------------------------- the ordering system
\* Between two frames the ordering system takes the list for writing and clears it.
OrderingBegin ==
    /\ pc = "Idle"
    /\ writing = None
    /\ writing' = Some("Ordering")
    /\ back_to_front' = << >>
    /\ prev' = None
    /\ UNCHANGED << configVars, active, camera, mesh, material, global, light, joints,
                    transparent, mesh_storage, frameVars, skipped, build_result, published >>

\* The ordering system appends the next entity, the farthest first.
OrderingPush ==
    /\ writing # None
    /\ Len(back_to_front) < MaxList
    /\ \E e \in Entity : back_to_front' = Append(back_to_front, e)
    /\ UNCHANGED << configVars, active, camera, mesh, material, global, light, joints,
                    transparent, extVars, mesh_storage, frameVars, skipped >>

\* The ordering system has finished: the list is published for the frame.
OrderingPublish ==
    /\ writing # None
    /\ writing' = None
    /\ published' = back_to_front
    /\ UNCHANGED << configVars, dataVars, mesh_storage, frameVars, skipped, build_result,
                    prev >>

\* ------------------------------------------------------ builder actions
WithVertexSkinning ==
    /\ effect = None
    /\ pass' = with_vertex_skinning(pass)
    /\ UNCHANGED << effect, requested, dataVars, extVars, mesh_storage, frameVars, skipped >>

WithTransparency ==
    /\ effect = None
    /\ \E t \in Transparency :
        /\ pass' = with_transparency(pass, t[1], t[2], t[3])
        /\ requested' = Some(t)
    /\ UNCHANGED << effect, dataVars, extVars, mesh_storage, frameVars, skipped >>

\* The pipeline compiles the pass it was given, once.
Compile ==
    /\ effect = None
    /\ \E result \in { "Ok" } \cup CompilationError :
        /\ effect' = Some(compile(pass, result))
        /\ build_result' = Some(result)
    /\ UNCHANGED << pass, requested, dataVars, writing, published, prev, mesh_storage,
                    frameVars, skipped >>

\* ------------------------------------------------------ specifications
\* No apply has run yet.
InitFrame ==
    /\ pc = "Idle"
    /\ cam = None
    /\ opaque_iter = 1
    /\ idx = 1
    /\ calls = << >>
    /\ encoder = << >>
    /\ skipped = { }

\* Frame data whose entities carry any combination of the three components, the
\* meshes of all handles resident.
InitComponents ==
    /\ pass = new
    /\ active = None
    /\ camera = { }
    /\ light = { }
    /\ joints = { }
    /\ mesh \in SUBSET Entity
    /\ mesh_storage = mesh
    /\ material \in SUBSET Entity
    /\ global \in SUBSET Entity

\* Frame data whose entities carry any combination of mesh handles, any of them
\* not (yet) resident in the mesh storage.
InitAssets ==
    /\ pass = new
    /\ active = None
    /\ camera = { }
    /\ light = { }
    /\ joints = { }
    /\ mesh \in SUBSET Entity
    /\ mesh_storage \in SUBSET mesh
    /\ mesh_storage # mesh
    /\ material = Entity /\ global = Entity

\* Frame data of fully equipped entities with any cameras and active camera.
InitCameras ==
    /\ pass = new
    /\ active \in { None } \cup { Some(e) : e \in Entity }
    /\ camera \in SUBSET Entity
    /\ light = { }
    /\ joints = { }
    /\ mesh = Entity /\ mesh_storage = Entity /\ material = Entity /\ global = Entity

\* Frame data of fully equipped entities with any lights.
InitLights ==
    /\ pass = new
    /\ active = None
    /\ camera = { }
    /\ light \in SUBSET Entity
    /\ light # { }
    /\ joints = { }
    /\ mesh = Entity /\ mesh_storage = Entity /\ material = Entity /\ global = Entity

\* Frame data of fully equipped entities drawn by a skinning pass.
InitSkinning ==
    /\ pass = with_vertex_skinning(new)
    /\ active = None
    /\ camera = { }
    /\ light = { }
    /\ joints \in SUBSET Entity
    /\ mesh = Entity /\ mesh_storage = Entity /\ material = Entity /\ global = Entity

\* A compiled pass and the frame data handed to apply.
Init ==
    /\ InitComponents \/ InitAssets \/ InitCameras \/ InitLights \/ InitSkinning
    /\ effect = Some(compile(pass, "Ok"))
    /\ build_result = Some("Ok")
    /\ requested = None
    /\ transparent \in SUBSET Entity
    /\ back_to_front \in SeqsUpTo(Entity, MaxList)
    /\ writing = None
    /\ published = back_to_front
    /\ prev = None
    /\ InitFrame

\* A pass fresh from new(), before the pipeline compiles it.
InitCompile ==
    /\ pass = new
    /\ effect = None
    /\ requested = None
    /\ active = None
    /\ camera = { } /\ light = { } /\ joints = { } /\ transparent = { }
    /\ mesh = { } /\ mesh_storage = { } /\ material = { } /\ global = { }
    /\ back_to_front = << >>
    /\ build_result = None
    /\ writing = None
    /\ published = << >>
    /\ prev = None
    /\ InitFrame

NextCompile ==
    \/ WithVertexSkinning
    \/ WithTransparency
    \/ Compile

SpecCompile == InitCompile /\ [][NextCompile]_vars

\* A pass fresh from new() and the frame data of fully equipped entities that the
\* renderer will hand to apply once the pass is compiled.
InitPipeline ==
    /\ pass = new
    /\ effect = None
    /\ requested = None
    /\ build_result = None
    /\ active = None
    /\ camera = { } /\ light = { } /\ joints = { }
    /\ mesh = Entity /\ material = Entity /\ global = Entity
    /\ mesh_storage \in { Entity, Entity \ { 1 } }
    /\ transparent \in SUBSET Entity
    /\ back_to_front \in SeqsUpTo(Entity, 1)
    /\ writing = None
    /\ published = back_to_front
    /\ prev = None
    /\ InitFrame

\* The pass from its construction to the frames drawn with its effect.
NextPipeline ==
    \/ WithVertexSkinning
    \/ WithTransparency
    \/ Compile
    \/ Apply
    \/ ResolveCamera
    \/ UploadLights
    \/ DrawOpaque
    \/ DrawOpaqueEnd
    \/ DrawTransparent
    \/ DrawTransparentEnd
    \/ EndFrame
    \/ LoadMesh

SpecPipeline == InitPipeline /\ [][NextPipeline]_vars

\* A compiled pass and the frame data of equipped entities with any cameras, the
\* list in the hands of the ordering system between the frames.
InitFrames ==
    /\ pass = new
    /\ effect = Some(compile(pass, "Ok"))
    /\ build_result = Some("Ok")
    /\ requested = None
    /\ active = None
    /\ camera \in SUBSET Entity
    /\ light = { } /\ joints = { }
    /\ mesh = Entity /\ material = Entity /\ global = Entity
    /\ mesh_storage \in { Entity, Entity \ { 1 } }
    /\ transparent \in SUBSET Entity
    /\ back_to_front = << >>
    /\ writing = None
    /\ published = back_to_front
    /\ prev = None
    /\ InitFrame

\* Frame after frame, each remembered for the next, the ordering system writing
\* the list in between.
NextFrames ==
    \/ Apply
    \/ ResolveCamera
    \/ UploadLights
    \/ DrawOpaque
    \/ DrawOpaqueEnd
    \/ DrawTransparent
    \/ DrawTransparentEnd
    \/ EndFrameRecorded
    \/ LoadMesh
    \/ OrderingBegin
    \/ OrderingPush
    \/ OrderingPublish

SpecFrames == InitFrames /\ [][NextFrames]_vars

Next ==
    \/ Apply
    \/ ResolveCamera
    \/ UploadLights
    \/ DrawOpaque
    \/ DrawOpaqueEnd
    \/ DrawTransparent
    \/ DrawTransparentEnd
    \/ EndFrame
    \/ LoadMesh

Spec == Init /\ [][Next]_vars

FairSpec == Spec /\ WF_vars(ApplyStep)

\* ------------------------------------------------------------- claims
IsOpaqueDraw(c) == c.op = "draw" /\ c.loop = "opaque"
IsTransparentDraw(c) == c.op = "draw" /\ c.loop = "transparent"

EntitiesOf(cmds) == [ i \in 1 .. Len(cmds) |-> cmds[i].entity[1] ]

\* The entities of the draw calls of each loop, in the order of the encoder.
OpaqueDraws == EntitiesOf(SelectSeq(encoder, IsOpaqueDraw))
TransparentDraws == EntitiesOf(SelectSeq(encoder, IsTransparentDraw))

Range(s) == { s[i] : i \in 1 .. Len(s) }

Count(s, x) == Cardinality({ i \in 1 .. Len(s) : s[i] = x })

RECURSIVE IsSubseq(_, _)
IsSubseq(s, t) ==
    IF s = << >> THEN TRUE
    ELSE IF t = << >> THEN FALSE
    ELSE IF Head(s) = Head(t) THEN IsSubseq(Tail(s), Tail(t))
    ELSE IsSubseq(s, Tail(t))

\* C1: the draw calls of the transparent loop are, in order, a subsequence of the
\* entries of the ordering list the loop has gone through: drawn entries keep the
\* relative order of the list, whatever the entity identifiers.
C1_TransparentOrder ==
    IsSubseq(TransparentDraws, SubSeq(back_to_front, 1, idx - 1))

\* C1 witness: list [B, A] with B the younger entity, drawn B then A.
C1_Witness ==
    /\ pc = "Done"
    /\ Len(back_to_front) = 2
    /\ back_to_front[1] > back_to_front[2]
    /\ TransparentDraws = back_to_front

\* C2: no draw call of the opaque loop is for an entity with the Transparent marker.
C2_OpaqueSkipsTransparent ==
    \A e \in Range(OpaqueDraws) : e \notin transparent

\* C2 witness: a fully equipped Transparent entity, in a frame that drew opaque ones.
C2_Witness ==
    /\ pc = "Done"
    /\ OpaqueDraws # << >>
    /\ \E e \in transparent :
        e \in mesh /\ e \in mesh_storage /\ e \in material /\ e \in global

\* C3 as stated: whatever the ordering list holds, no entity is drawn by both loops.
C3_NeverBothAnyList ==
    Range(OpaqueDraws) \cap Range(TransparentDraws) = { }

\* C3 amended: when every entry of the ordering list carries the Transparent marker
\* (entries may repeat), no entity is drawn by both loops.
C3_NeverBothMarkedList ==
    Range(back_to_front) \subseteq transparent
        => Range(OpaqueDraws) \cap Range(TransparentDraws) = { }

\* C3 witness: a list of marked entities, in a frame where both loops drew.
C3_Witness ==
    /\ pc = "Done"
    /\ Range(back_to_front) \subseteq transparent
    /\ OpaqueDraws # << >>
    /\ TransparentDraws # << >>

\* The entities the opaque loop handed to draw_mesh, in order.
IsOpaqueCall(c) == c.loop = "opaque"
OpaqueCalls ==
    LET cs == SelectSeq(calls, IsOpaqueCall) IN [ i \in 1 .. Len(cs) |-> cs[i].entity ]

HasComponents(e) == e \in mesh /\ e \in material /\ e \in global

\* C4: the transparent loop issues no draw call for a listed entity that lacks the
\* mesh handle, the Material or the GlobalTransform, and goes on with the next
\* entry: once apply is done the whole list was walked and every listed entity with
\* all components and a resolved mesh was drawn once per occurrence.
C4_MissingComponentSkipped ==
    /\ \A e \in Range(TransparentDraws) : HasComponents(e)
    /\ pc = "Done" =>
        /\ idx = Len(back_to_front) + 1
        /\ \A e \in Entity :
            HasComponents(e) /\ e \in mesh_storage
                => Count(TransparentDraws, e) = Count(back_to_front, e)

\* C4 witness: the first entry lacks a component, the second one was drawn.
C4_Witness ==
    /\ pc = "Done"
    /\ Len(back_to_front) = 2
    /\ ~HasComponents(back_to_front[1])
    /\ TransparentDraws = << back_to_front[2] >>

PhaseOrder ==
    { << "Idle", "ResolveCamera" >>, << "ResolveCamera", "UploadLights" >>,
      << "UploadLights", "DrawOpaque" >>, << "DrawOpaque", "DrawTransparent" >>,
      << "DrawTransparent", "Done" >>, << "Done", "Idle" >> }

EncoderInPhaseOrder ==
    /\ pc \in { "Idle", "ResolveCamera", "UploadLights" } => encoder = << >>
    /\ pc \in { "DrawOpaque", "DrawTransparent", "Done" } => encoder # << >>
    /\ \A i \in 1 .. Len(encoder) : encoder[i].op = "set_light_args" <=> i = 1
    /\ pc = "DrawOpaque" => TransparentDraws = << >>
    /\ \A i, j \in 1 .. Len(encoder) :
        IsTransparentDraw(encoder[i]) /\ IsOpaqueDraw(encoder[j]) => j < i

\* C5: apply moves through ResolveCamera, UploadLights, DrawOpaque, DrawTransparent,
\* Done in that order and no other; the encoder holds the light upload first, then
\* the opaque draw calls, then the transparent ones.
C5_PhaseOrder ==
    /\ [][pc' # pc => << pc, pc' >> \in PhaseOrder]_vars
    /\ [](pc \in { "Idle", "ResolveCamera", "UploadLights", "DrawOpaque",
                   "DrawTransparent", "Done" })
    /\ []EncoderInPhaseOrder

\* C5 witness: a finished frame in which both loops drew.
C5_Witness ==
    /\ pc = "Done"
    /\ cam # None
    /\ OpaqueDraws # << >>
    /\ TransparentDraws # << >>

Eligible ==
    { e \in Entity : e \in mesh /\ e \in material /\ e \in global /\ e \notin transparent }

\* C6: the opaque loop hands to draw_mesh exactly the entities with mesh handle,
\* Material and GlobalTransform and without the Transparent marker, each once; with
\* their meshes loaded and an empty list the frame has that many opaque draw calls
\* and no transparent one.
C6_OpaqueVisits ==
    /\ \A e \in Entity : Count(OpaqueCalls, e) <= (IF e \in Eligible THEN 1 ELSE 0)
    /\ pc \in { "DrawTransparent", "Done" } =>
        \A e \in Eligible : Count(OpaqueCalls, e) = 1
    /\ pc = "Done" /\ Eligible \subseteq mesh_storage /\ back_to_front = << >> =>
        /\ Len(OpaqueDraws) = Cardinality(Eligible)
        /\ TransparentDraws = << >>

\* C6 witness: one eligible entity, one opaque draw call after the light upload.
C6_Witness ==
    /\ pc = "Done"
    /\ back_to_front = << >>
    /\ Cardinality(Eligible) = 1
    /\ Len(OpaqueDraws) = 1
    /\ Len(encoder) = 2

\* C7: an entity whose mesh handle does not resolve gets no draw call; at the end
\* of every frame each eligible entity whose mesh resolves has its opaque draw call
\* and each listed one its transparent draw calls, whether or not another entity, or
\* the entity itself in an earlier frame, was skipped for an unresolved mesh.
C7_UnresolvedMeshSkipped ==
    /\ \A e \in Range(OpaqueDraws) \cup Range(TransparentDraws) : e \in mesh_storage
    /\ pc = "Done" =>
        \A e \in Entity :
            e \in mesh_storage =>
                /\ e \in Eligible => Count(OpaqueDraws, e) = 1
                /\ HasComponents(e) => Count(TransparentDraws, e) = Count(back_to_front, e)

\* C7 witness: an entity skipped in an earlier frame is drawn by the opaque loop in
\* a frame in which another entity is skipped for its unresolved mesh.
C7_Witness ==
    /\ pc = "Done"
    /\ \E e \in skipped : e \in Range(OpaqueDraws)
    /\ \E e \in mesh \ mesh_storage :
        \E i \in 1 .. Len(calls) : calls[i].entity = e

\* C8: every call of apply reaches Done.
C8_ReachesDone == (pc = "ResolveCamera") ~> (pc = "Done")

\* C8 witness: a frame done without any camera, with an unresolved mesh handed to
\* draw_mesh and a listed entity without mesh handle.
C8_Witness ==
    /\ pc = "Done"
    /\ camera = { }
    /\ \E i \in 1 .. Len(calls) : calls[i].entity \notin mesh_storage
    /\ \E e \in Range(back_to_front) : e \notin mesh

IsJointReg(r) ==
    \/ r.kind = "vertex_buffer" /\ r.name \in { "JointIds", "JointWeights" }
    \/ r.kind = "constant_buffer" /\ r.name = "JointTransforms"

IsNotJointReg(r) == ~IsJointReg(r)

\* The registrations of the compiled effect, and those of the pass that differs
\* from the compiled one in the skinning flag alone.
SkinnedBindings ==
    IF pass.skinning THEN effect[1].bindings
    ELSE compile(with_vertex_skinning(pass), "Ok").bindings

UnskinnedBindings ==
    IF pass.skinning THEN compile([ pass EXCEPT !.skinning = FALSE ], "Ok").bindings
    ELSE effect[1].bindings

\* C9: the registrations of the skinned effect are those of the unskinned effect of
\* the same transparency setting, unchanged and in the same order, plus the JointIds
\* and JointWeights vertex buffers and the JointTransforms uniform buffer.
C9_SkinningAddsJointBindings ==
    effect # None /\ effect[1].ok =>
        /\ SelectSeq(SkinnedBindings, IsNotJointReg) = UnskinnedBindings
        /\ Len(SkinnedBindings) = Len(UnskinnedBindings) + 3
        /\ { << r.kind, r.name >> : r \in Range(SelectSeq(SkinnedBindings, IsJointReg)) }
             = { << "vertex_buffer", "JointIds" >>, << "vertex_buffer", "JointWeights" >>,
                 << "constant_buffer", "JointTransforms" >> }

\* C9 witness: a skinning pass with a transparency setting, compiled.
C9_Witness ==
    /\ effect # None /\ effect[1].ok
    /\ pass.skinning
    /\ pass.transparency # None

IsOutputReg(r) == r.kind \in { "output", "blended_output" }

\* C10: the compiled effect has one output target: the plain output with depth mode
\* LessEqualWrite when with_transparency was never called, else the blended output
\* with the mask, blend and depth mode of the last with_transparency call.
C10_OutputTarget ==
    effect # None /\ effect[1].ok =>
        LET outs == SelectSeq(effect[1].bindings, IsOutputReg)
        IN  /\ Len(outs) = 1
            /\ outs[1].name = "color"
            /\ IF requested = None
               THEN /\ outs[1].kind = "output"
                    /\ outs[1].mask = None /\ outs[1].blend = None
                    /\ outs[1].depth = Some("LessEqualWrite")
               ELSE /\ outs[1].kind = "blended_output"
                    /\ outs[1].mask = Some(requested[1][1])
                    /\ outs[1].blend = Some(requested[1][2])
                    /\ outs[1].depth = requested[1][3]

\* C10 witness: a pass compiled after with_transparency was given a depth mode.
C10_Witness ==
    /\ effect # None /\ effect[1].ok
    /\ requested # None
    /\ requested[1][3] = Some("LessEqualTest")

\* The registration step a binding of the effect belongs to.
Stage(r) ==
    CASE r.kind = "vertex_buffer" /\ r.name \in Range(ATTRIBUTES) -> 1
      [] IsJointReg(r) -> 2
      [] r.kind = "constant_buffer" /\ r.name \in { "PerObject", "PerCamera" } -> 3
      [] r.kind = "constant_buffer" /\ r.name \in { "AmbientColor", "Lights" } -> 4
      [] r.kind = "texture" -> 5
      [] IsOutputReg(r) -> 6
      [] OTHER -> 0

NamesOf(regs) == [ i \in 1 .. Len(regs) |-> regs[i].name ]

\* C11: the effect handed to the build step has its registrations in the fixed
\* order of the steps: the vertex shader chosen by the skinning flag; the Position,
\* Normal, Tangent and TexCoord vertex buffers; the joint buffers if and only if
\* skinning; the per-object and per-camera buffers; the light buffers; the texture
\* slots; the output target last. The order does not depend on the transparency
\* setting.
C11_RegistrationOrder ==
    effect # None /\ effect[1].ok =>
        LET regs == effect[1].bindings
            joint == IF pass.skinning
                     THEN << "JointIds", "JointWeights", "JointTransforms" >>
                     ELSE << >>
        IN  /\ effect[1].vs = (IF pass.skinning THEN "SKINNED_VERT_SRC" ELSE "VERT_SRC")
            /\ effect[1].fs = "FRAG_SRC"
            /\ \A i \in 1 .. Len(regs) : Stage(regs[i]) # 0
            /\ \A i \in 1 .. Len(regs) - 1 : Stage(regs[i]) <= Stage(regs[i + 1])
            /\ NamesOf(regs) = ATTRIBUTES \o joint
                                 \o << "PerObject", "PerCamera", "AmbientColor", "Lights" >>
                                 \o TEXTURES \o << "color" >>
            /\ Stage(regs[Len(regs)]) = 6

\* C11 witness: a skinning pass without a transparency setting, compiled.
C11_Witness ==
    /\ effect # None /\ effect[1].ok
    /\ pass.skinning
    /\ pass.transparency = None

\* C12: with skinning enabled an entity without JointTransforms is drawn like any
\* other: once apply is done, every entity with mesh handle, resolved mesh, Material
\* and GlobalTransform has one opaque draw call if it is unmarked and one transparent
\* draw call per occurrence in the list, whether or not it has JointTransforms; its
\* draw calls are skinned ones with no joint set of its own, and apply never fails.
C12_DrawnWithoutJoints ==
    /\ pc \in { "Idle", "ResolveCamera", "UploadLights", "DrawOpaque", "DrawTransparent",
                "Done" }
    /\ pass.skinning =>
        /\ \A i \in 1 .. Len(encoder) :
            encoder[i].op = "draw" =>
                /\ encoder[i].skinned
                /\ encoder[i].joints = get(joints, encoder[i].entity[1])
        /\ pc = "Done" =>
            \A e \in Entity :
                HasComponents(e) /\ e \in mesh_storage =>
                    /\ Count(OpaqueDraws, e) = (IF e \in transparent THEN 0 ELSE 1)
                    /\ Count(TransparentDraws, e) = Count(back_to_front, e)

\* C12 witness: a skinning pass has drawn an entity without JointTransforms in the
\* opaque loop and another one in the transparent loop, next to an entity with them.
C12_Witness ==
    /\ pc = "Done"
    /\ pass.skinning
    /\ joints # { }
    /\ \E e \in Entity \ joints : Count(OpaqueDraws, e) = 1
    /\ \E e \in Entity \ joints : Count(TransparentDraws, e) >= 1
    /\ \E i \in 1 .. Len(encoder) :
        encoder[i].op = "draw" /\ encoder[i].skinned /\ encoder[i].joints = None

\* C13: compile yields an Effect exactly when the build step succeeded and the
\* build step's error otherwise, the error being the one the build step returned
\* and no binding of the builder being handed out with it; no apply runs, and
\* nothing is recorded in an encoder, unless compile has yielded an Effect.
C13_EffectOrError ==
    /\ effect # None =>
        /\ build_result # None
        /\ effect[1].ok <=> build_result = Some("Ok")
        /\ effect[1].ok => effect[1].error = "" /\ effect[1].bindings # << >>
        /\ ~effect[1].ok =>
            /\ effect[1].error \in CompilationError
            /\ effect[1].error = build_result[1]
            /\ effect[1].bindings = << >>
            /\ effect[1].vs = "" /\ effect[1].fs = ""
    /\ effect = None \/ ~effect[1].ok =>
        pc = "Idle" /\ encoder = << >> /\ calls = << >>

\* C13 witness: the build step of a configured pass failed on a device limit.
C13_Witness ==
    /\ effect # None
    /\ ~effect[1].ok
    /\ build_result = Some("DeviceLimit")
    /\ pass.skinning /\ pass.transparency # None
    /\ pc = "Idle"

InApply == pc \in { "ResolveCamera", "UploadLights", "DrawOpaque", "DrawTransparent", "Done" }

\* The commands of an encoder without the camera they were given.
WithoutCamera(enc) == [ i \in 1 .. Len(enc) |-> [ enc[i] EXCEPT !.camera = None ] ]

\* C14: no step of apply changes the ordering list, a component store, the mesh
\* storage or the pass's settings, and an apply on the frame data of the apply before
\* it issues the same commands in the same order: the same draw calls for the same
\* entities, and, when the camera resolver answers the same, the same commands
\* altogether.
C14_ApplyOnlyReads ==
    /\ [](pc = "Done" /\ prev # None =>
            /\ WithoutCamera(encoder) = WithoutCamera(prev[1].encoder)
            /\ cam = prev[1].cam => encoder = prev[1].encoder)
    /\ [][InApply \/ InApply' => UNCHANGED << dataVars, mesh_storage, pass, effect, requested >>]_vars

\* C14 witness: a second apply on unchanged frame data has drawn in both loops.
C14_Witness ==
    /\ pc = "Done"
    /\ prev # None
    /\ OpaqueDraws # << >>
    /\ TransparentDraws # << >>
    /\ Len(back_to_front) = MaxList

IsAttributeBuffer(r) == r.kind = "vertex_buffer" /\ r.name \in Range(ATTRIBUTES)

RECURSIVE SumOfStrides(_)
SumOfStrides(regs) ==
    IF regs = << >> THEN 0 ELSE Head(regs).stride + SumOfStrides(Tail(regs))

RECURSIVE SumOfSizes(_)
SumOfSizes(attrs) ==
    IF attrs = << >> THEN 0 ELSE size(Head(attrs)) + SumOfSizes(Tail(attrs))

\* C15: the vertex buffers a compiled effect registers for the attribute groups are
\* those of ATTRIBUTES, one each and in that order, each with the size of its own
\* group as stride; so their strides add up to the sizes of the groups of ATTRIBUTES.
C15_SeparateStrides ==
    effect # None /\ effect[1].ok =>
        LET bufs == SelectSeq(effect[1].bindings, IsAttributeBuffer)
        IN  /\ NamesOf(bufs) = ATTRIBUTES
            /\ \A i \in 1 .. Len(bufs) : bufs[i].stride = size(ATTRIBUTES[i])
            /\ SumOfStrides(bufs) = SumOfSizes(ATTRIBUTES)
            /\ \A i \in 1 .. Len(bufs) : bufs[i].stride < SumOfSizes(ATTRIBUTES)

\* C15 witness: a compiled pass without skinning, its four strides 12, 12, 12 and 8.
C15_Witness ==
    /\ effect # None /\ effect[1].ok
    /\ ~pass.skinning
    /\ SumOfStrides(SelectSeq(effect[1].bindings, IsAttributeBuffer)) = 12 + 12 + 12 + 8

IsTransparentCall(c) == c.loop = "transparent"
TransparentCalls ==
    LET cs == SelectSeq(calls, IsTransparentCall)
    IN  [ i \in 1 .. Len(cs) |-> cs[i].entity ]

HasMeshHandle(e) == e \in mesh

\* C16: from the entry of apply to its return the ordering system is not writing and
\* the list is the one it last published; no step taken in between changes the
\* list; and when apply is done the transparent loop has gone through exactly the
\* entries of the published list, in their order.
C16_ReadsPublishedList ==
    /\ [](InApply => writing = None /\ back_to_front = published)
    /\ [](pc = "Done" => TransparentCalls = SelectSeq(published, HasMeshHandle))
    /\ [][InApply \/ InApply' => UNCHANGED << back_to_front, published, writing >>]_vars

\* C16 witness: the transparent loop is half way through a list of two different
\* entities that the ordering system wrote and published before the frame.
C16_Witness ==
    /\ pc = "DrawTransparent"
    /\ idx = 2
    /\ writing = None
    /\ Len(published) >= 2
    /\ published[1] # published[2]
    /\ back_to_front = published

IsLightUpload(c) == c.op = "set_light_args"

\* C17: the light upload of a frame writes all the lights when they are at most
\* MAX_LIGHTS and exactly MAX_LIGHTS when they are more, never more; it happens once,
\* before the loops; the effect stays the compiled one, apply does not fail, and
\* once it is done every eligible entity with a resolved mesh has its draw call.
C17_LightsTruncated ==
    /\ effect # None /\ effect[1].ok
    /\ pc \in { "Idle", "ResolveCamera", "UploadLights", "DrawOpaque", "DrawTransparent",
                "Done" }
    /\ \A i \in 1 .. Len(encoder) :
        IsLightUpload(encoder[i]) =>
            /\ encoder[i].lights <= MAX_LIGHTS
            /\ Cardinality(light) <= MAX_LIGHTS => encoder[i].lights = Cardinality(light)
            /\ Cardinality(light) > MAX_LIGHTS => encoder[i].lights = MAX_LIGHTS
    /\ pc \in { "DrawOpaque", "DrawTransparent", "Done" } =>
        /\ Len(SelectSeq(encoder, IsLightUpload)) = 1
        /\ IsLightUpload(encoder[1])
    /\ pc = "Done" =>
        \A e \in Eligible : e \in mesh_storage => Count(OpaqueDraws, e) = 1

\* C17 witness: a frame with more lights than MAX_LIGHTS is done, MAX_LIGHTS of them
\* uploaded and both loops drawn.
C17_Witness ==
    /\ pc = "Done"
    /\ Cardinality(light) > MAX_LIGHTS
    /\ encoder[1].lights = MAX_LIGHTS
    /\ OpaqueDraws # << >>
    /\ TransparentDraws # << >>

\* C18: the camera of a frame is resolved once, at the start of apply and before any
\* command is recorded, and it is one of the answers of the camera resolver; the
\* light upload and every draw call of both loops carry that camera.
C18_OneCameraPerFrame ==
    /\ [](\A i \in 1 .. Len(encoder) : encoder[i].camera = cam)
    /\ [](InApply /\ pc # "ResolveCamera" => cam \in get_camera(active, camera, global))
    /\ [][cam' # cam =>
            \/ pc = "ResolveCamera" /\ pc' = "UploadLights" /\ encoder = << >>
            \/ pc = "Done" /\ pc' = "Idle"]_vars

\* C18 witness: with two cameras to fall back on, a frame is done whose light upload
\* and draw calls of both loops were recorded.
C18_Witness ==
    /\ pc = "Done"
    /\ active = None
    /\ Cardinality(camera) >= 2
    /\ cam # None
    /\ IsLightUpload(encoder[1])
    /\ OpaqueDraws # << >>
    /\ TransparentDraws # << >>

\* C19: once apply is done the transparent loop has called draw_mesh for the entries
\* of the list that have a mesh handle, one call per occurrence and in the order of
\* the list, marked or not; an entity with the Transparent marker that is not in
\* the list has no call and no draw call in the frame, in either loop.
C19_ListDecides ==
    pc = "Done" =>
        /\ TransparentCalls = SelectSeq(back_to_front, HasMeshHandle)
        /\ \A e \in Entity :
            Count(TransparentCalls, e) = (IF e \in mesh THEN Count(back_to_front, e) ELSE 0)
        /\ \A e \in transparent :
            e \notin Range(back_to_front) =>
                /\ \A i \in 1 .. Len(calls) : calls[i].entity # e
                /\ Count(OpaqueDraws, e) = 0 /\ Count(TransparentDraws, e) = 0

\* C19 witness: an unmarked entity listed twice was drawn twice by the transparent
\* loop, and a marked entity with all it takes to be drawn, not in the list, was not
\* drawn.
C19_Witness ==
    /\ pc = "Done"
    /\ \E e \in Entity \ transparent :
        Count(back_to_front, e) = 2 /\ Count(TransparentDraws, e) = 2
    /\ \E f \in transparent :
        /\ HasComponents(f) /\ f \in mesh_storage
        /\ f \notin Range(back_to_front)
        /\ Count(OpaqueDraws, f) = 0 /\ Count(TransparentDraws, f) = 0

\* C20: new() has skinning off and no transparency; on every pass the builder
\* methods can make, with_vertex_skinning sets the flag, is idempotent and keeps the
\* transparency setting; with_transparency keeps the flag and the last call wins;
\* the two commute; and the pass holds the setting of the last with_transparency.
C20_BuilderAlgebra ==
    /\ new = [ skinning |-> FALSE, transparency |-> None ]
    /\ pass.transparency = requested
    /\ with_vertex_skinning(pass).skinning
    /\ with_vertex_skinning(with_vertex_skinning(pass)) = with_vertex_skinning(pass)
    /\ with_vertex_skinning(pass).transparency = pass.transparency
    /\ \A t \in Transparency :
        LET set_t == with_transparency(pass, t[1], t[2], t[3])
        IN  /\ set_t.skinning = pass.skinning
            /\ set_t.transparency = Some(t)
            /\ with_vertex_skinning(set_t)
                 = with_transparency(with_vertex_skinning(pass), t[1], t[2], t[3])
            /\ \A u \in Transparency :
                with_transparency(set_t, u[1], u[2], u[3])
                  = with_transparency(pass, u[1], u[2], u[3])

\* C20 witness: a pass not yet compiled on which both builder methods were called.
C20_Witness ==
    /\ effect = None
    /\ pass.skinning
    /\ pass.transparency # None
    /\ pass.transparency = requested

====
